---------------------------- MODULE Spec2Model ----------------------------
(***************************************************************************)
(* A model of ether/crypto.py (riemann-ether): modular exponentiation,     *)
(* secp256k1 point compression, address derivation, DER encoding and the   *)
(* sign / recover facade over the eth_keys ECDSA engine.                   *)
(*                                                                         *)
(* Scaling.  TLC's integers are 32 bits wide, Python's are unbounded, so   *)
(* the 256-bit quantities are scaled down and every product stays below    *)
(* 2^31 (no arithmetic of the model wraps):                                *)
(*   - the field prime p = 2^256 - 2^32 - 977 becomes P = 823, which like  *)
(*     it is = 3 (mod 4) and = 1 (mod 3);                                  *)
(*   - the curve is still y^2 = x^3 + 7; over F_823 it has prime order     *)
(*     829, so as on secp256k1 no point has y = 0 and none has x = 0;      *)
(*   - coordinates, private keys and digests are COORD_LEN = 2 bytes wide  *)
(*     instead of 32, an address is the last ADDR_LEN = 1 byte of a digest *)
(*     instead of the last 20.                                             *)
(* Byte strings are sequences of integers in 0..255, big-endian as in the  *)
(* source.  A raised Python exception is the value Err(<exception name>).  *)
(***************************************************************************)
EXTENDS Integers, Sequences, FiniteSets, TLC

VARIABLES
    input,  \* the client's arguments for this run, fixed by Init
    hist,   \* the functions of crypto.py applied so far, in order
    arg,    \* the arguments of the last call
    val,    \* the value returned by the last call (or the exception raised)
    calls,  \* the calls made into the external engine / callee by the last call
    pm      \* pow_mod's loop state: pc, number, x, y, z (and the arguments x0, y0)

vars == <<input, hist, arg, val, calls, pm>>

---------------------------------------------------------------------------
(* Program constants (scaled, see above) *)

\* crypto.py:45  p = 0xffff...fc2f
P == 823
\* crypto.py:48  the curve constant in (x^3 + 7) % p
B == 7
\* crypto.py:52  x.to_bytes(32, 'big'); also the width of a key and a digest
COORD_LEN == 2
\* crypto.py:72  keccak256(pubkey)[-20:]
ADDR_LEN == 1
\* crypto.py:57  len(pubkey) == 65
UNCOMPRESSED_LEN == 2 * COORD_LEN + 1

(* Bounds of the model *)

\* pow_mod is checked for bases 0..MaxBase, exponents 0..MaxExp, moduli 1..MaxMod
MaxBase == 10
MaxExp == 16
MaxMod == 12
\* the x-coordinates enumerated in compressed buffers are 0..MaxX (MaxX >= P - 1)
MaxX == 830
\* the longest chain of calls the client makes on one value
MaxCalls == 2
\* private keys are the scalars 1..MaxPriv, signing nonces 1..MaxNonce
MaxPriv == 4
MaxNonce == 4
\* messages are the byte strings over MsgBytes of length 0..MaxMsgLen
MaxMsgLen == 1
\* signature integers enumerated around 0: -1..MaxSmall
MaxSmall == 2

---------------------------------------------------------------------------
(* Values *)

Bytes(b) == [tag |-> "bytes", b |-> b]
Err(name) == [tag |-> "error", name |-> name]
Str(chars) == [tag |-> "str", s |-> chars]
Sig(v, r, s) == [tag |-> "sig", v |-> v, r |-> r, s |-> s]
NoValue == [tag |-> "none"]
IsBytes(v) == v.tag = "bytes"
IsSig(v) == v.tag = "sig"
IsErr(v) == v.tag = "error"

\* pubkey[i:] with i counted from 0
DropFirst(b, i) == IF i >= Len(b) THEN <<>> ELSE SubSeq(b, i + 1, Len(b))
\* pubkey[:i]
TakeFirst(b, i) == IF i >= Len(b) THEN b ELSE SubSeq(b, 1, i)
\* pubkey[-i:]
TakeLast(b, i) == IF i >= Len(b) THEN b ELSE SubSeq(b, Len(b) - i + 1, Len(b))

RECURSIVE Pow256(_)
Pow256(k) == IF k = 0 THEN 1 ELSE 256 * Pow256(k - 1)

\* int.from_bytes(b, 'big')
RECURSIVE from_bytes(_)
from_bytes(b) ==
    IF b = <<>> THEN 0
    ELSE from_bytes(SubSeq(b, 1, Len(b) - 1)) * 256 + b[Len(b)]

\* n.to_bytes(len, 'big') for 0 <= n < 256^len
RECURSIVE to_bytes(_, _)
to_bytes(n, len) ==
    IF len = 0 THEN <<>>
    ELSE Append(to_bytes(n \div 256, len - 1), n % 256)

\* int.bit_length()
RECURSIVE bit_length(_)
bit_length(n) == IF n = 0 THEN 0 ELSE 1 + bit_length(n \div 2)

---------------------------------------------------------------------------
(* pow_mod, crypto.py:27-38 *)

\* pow_mod_body with the squaring done before the multiplication
pow_mod_body_square_first(st) ==
    [st EXCEPT !.number = IF st.y % 2 = 1
                          THEN (st.number * ((st.x * st.x) % st.z)) % st.z
                          ELSE st.number,
               !.y = st.y \div 2,
               !.x = (st.x * st.x) % st.z]

\* one pass through the body of `while y:` (lines 34-37)
pow_mod_body(st) ==
    [st EXCEPT !.number = IF st.y % 2 = 1 THEN (st.number * st.x) % st.z
                          ELSE st.number,
               !.y = st.y \div 2,
               !.x = (st.x * st.x) % st.z]

RECURSIVE pow_mod_loop(_)
pow_mod_loop(st) ==
    IF st.y # 0 THEN pow_mod_loop(pow_mod_body(st)) ELSE st.number

pow_mod(x, y, z) == pow_mod_loop([number |-> 1, x |-> x, y |-> y, z |-> z])

---------------------------------------------------------------------------
(* PointCodec, crypto.py:41-60 *)

\* uncompress_pubkey without the parity correction of lines 50-51
uncompress_pubkey_keep_root(pubkey) ==
    IF Len(pubkey) = 0 THEN Err("IndexError")
    ELSE
        LET x == from_bytes(DropFirst(pubkey, 1))
            a == (pow_mod(x, 3, P) + B) % P
            y == pow_mod(a, (P + 1) \div 4, P)
        IN  IF x >= Pow256(COORD_LEN) THEN Err("OverflowError")
            ELSE Bytes(to_bytes(x, COORD_LEN) \o to_bytes(y, COORD_LEN))

uncompress_pubkey(pubkey) ==
    IF Len(pubkey) = 0 THEN Err("IndexError")
    ELSE
        LET parity == pubkey[1] - 2
            x == from_bytes(DropFirst(pubkey, 1))
            a == (pow_mod(x, 3, P) + B) % P
            y0 == pow_mod(a, (P + 1) \div 4, P)
            y == IF y0 % 2 # parity THEN (-y0) % P ELSE y0
        IN  IF x >= Pow256(COORD_LEN) THEN Err("OverflowError")
            ELSE Bytes(to_bytes(x, COORD_LEN) \o to_bytes(y, COORD_LEN))

\* compress_pubkey taking the parity from pub[0] instead of pub[-1]
compress_pubkey_first_byte(pubkey) ==
    LET pub == IF Len(pubkey) = UNCOMPRESSED_LEN THEN DropFirst(pubkey, 1)
               ELSE pubkey
    IN  IF Len(pub) = 0 THEN Err("IndexError")
        ELSE LET parity == (pub[1] % 2) + 2
             IN  Bytes(<<parity>> \o TakeFirst(pub, COORD_LEN))

compress_pubkey(pubkey) ==
    LET pub == IF Len(pubkey) = UNCOMPRESSED_LEN THEN DropFirst(pubkey, 1)
               ELSE pubkey
    IN  IF Len(pub) = 0 THEN Err("IndexError")
        ELSE LET parity == (pub[Len(pub)] % 2) + 2
             IN  Bytes(<<parity>> \o TakeFirst(pub, COORD_LEN))

---------------------------------------------------------------------------
(* keccak256, crypto.py:13-24.  Keccak itself is pycryptodome's; it is     *)
(* modelled by a concrete hash of every byte of its input to COORD_LEN     *)
(* bytes.  OtherHash stands for any other callable a caller passes as algo.*)

RECURSIVE HashFold(_, _, _)
HashFold(h, mult, msg) ==
    IF msg = <<>> THEN h
    ELSE HashFold((h * mult + Head(msg) + 1) % Pow256(COORD_LEN), mult, Tail(msg))

keccak256(msg) == to_bytes(HashFold(40503, 31, msg), COORD_LEN)

OtherHash(msg) == to_bytes(HashFold(7, 131, msg), COORD_LEN)

\* algo(message) for a hash function passed by name
apply_hash(algo, msg) == IF algo = "keccak256" THEN keccak256(msg) ELSE OtherHash(msg)

\* bytes.hex()
HexDigits == <<"0", "1", "2", "3", "4", "5", "6", "7",
               "8", "9", "a", "b", "c", "d", "e", "f">>

RECURSIVE hex(_)
hex(b) ==
    IF b = <<>> THEN <<>>
    ELSE <<HexDigits[(Head(b) \div 16) + 1], HexDigits[(Head(b) % 16) + 1]>>
         \o hex(Tail(b))

---------------------------------------------------------------------------
(* The ECDSA engine eth_keys (eth-keys 0.2.1, native backend) that         *)
(* crypto.py calls at lines 65-67, 87-89 and 121-123, over the scaled      *)
(* curve.  Points are <<x, y>>, the point at infinity is <<>>.             *)

Inf == <<>>

\* every point of the curve y^2 = x^3 + 7 over F_P, as <<x, y>>
CurvePoints ==
    {pt \in (0 .. P - 1) \X (0 .. P - 1) :
        (pt[2] * pt[2]) % P = (((pt[1] * pt[1]) % P) * pt[1] + B) % P}

\* the order of the curve's group (829, a prime): the points and infinity
N == Cardinality(CurvePoints) + 1

\* the generator: the curve point with the least x and the lesser y
GPoint == <<1, 255>>

\* a^-1 mod m for a prime m
inv(a, m) == pow_mod(a % m, m - 2, m)

ec_add(A, C) ==
    IF A = Inf THEN C
    ELSE IF C = Inf THEN A
    ELSE IF A[1] = C[1] /\ (A[2] + C[2]) % P = 0 THEN Inf
    ELSE LET l == IF A = C
                  THEN (((3 * A[1] * A[1]) % P) * inv(2 * A[2], P)) % P
                  ELSE (((C[2] - A[2]) % P) * inv(C[1] - A[1], P)) % P
             x == (l * l - A[1] - C[1]) % P
         IN  <<x, (l * ((A[1] - x) % P) - A[2]) % P>>

RECURSIVE ec_mul(_, _)
ec_mul(A, k) ==
    IF k = 0 THEN Inf
    ELSE IF k % 2 = 1 THEN ec_add(A, ec_mul(ec_add(A, A), k \div 2))
    ELSE ec_mul(ec_add(A, A), k \div 2)

\* PrivateKey(privkey); PublicKey.from_private(priv).to_bytes(): 64 bytes x || y
eth_from_private(privkey) ==
    IF Len(privkey) # COORD_LEN THEN Err("ValidationError")
    ELSE LET Q == ec_mul(GPoint, from_bytes(privkey))
         IN  Bytes(to_bytes(Q[1], COORD_LEN) \o to_bytes(Q[2], COORD_LEN))

\* Signature(vrs=...): v in {0, 1}, 0 < r < N, 0 < s < N
eth_valid_vrs(v, r, s) ==
    /\ v \in {0, 1}
    /\ 0 < r /\ r < N
    /\ 0 < s /\ s < N

\* PrivateKey(privkey).sign_msg_hash(digest).vrs with the nonce k:
\* v is the parity of the nonce point's y, flipped when s is replaced by N - s
eth_sign_msg_hash(digest, privkey, k) ==
    IF Len(privkey) # COORD_LEN \/ Len(digest) # COORD_LEN
    THEN Err("ValidationError")
    ELSE LET z == from_bytes(digest)
             d == from_bytes(privkey)
             R == ec_mul(GPoint, k)
             r == R[1]
             s_raw == (inv(k, N) * ((z + r * d) % N)) % N
             high == IF s_raw * 2 < N THEN 0 ELSE 1
             v == ((R[2] % 2) + high) % 2
             s == IF high = 0 THEN s_raw ELSE N - s_raw
         IN  IF eth_valid_vrs(v, r, s) THEN Sig(v, r, s)
             ELSE Err("ValidationError")

\* Signature(vrs=(v, r, s)).recover_public_key_from_msg_hash(digest).to_bytes():
\* the point R has x = r and the y whose parity is v; Q = r^-1 (s R - z G)
eth_recover(v, r, s, digest) ==
    IF ~eth_valid_vrs(v, r, s) \/ Len(digest) # COORD_LEN
    THEN Err("ValidationError")
    ELSE LET a == (pow_mod(r, 3, P) + B) % P
             beta == pow_mod(a, (P + 1) \div 4, P)
             y == IF beta % 2 = v THEN beta ELSE (P - beta) % P
             z == from_bytes(digest)
             Q == ec_mul(ec_add(ec_mul(GPoint, (N - (z % N)) % N),
                                ec_mul(<<r, y>>, s)),
                         inv(r, N))
         IN  IF r >= P \/ (y * y) % P # a \/ Q = Inf THEN Err("BadSignature")
             ELSE Bytes(to_bytes(Q[1], COORD_LEN) \o to_bytes(Q[2], COORD_LEN))

---------------------------------------------------------------------------
(* KeyDerivation, crypto.py:63-77 *)

priv_to_pub(privkey) == eth_from_private(privkey)

pub_to_addr(pubkey) ==
    Str(<<"0", "x">> \o hex(TakeLast(keccak256(pubkey), ADDR_LEN)))

priv_to_addr(privkey) ==
    LET pub == priv_to_pub(privkey)
    IN  IF IsErr(pub) THEN pub ELSE pub_to_addr(pub.b)

---------------------------------------------------------------------------
(* Recovery, crypto.py:80-93.  A call returns [ret, calls]: its value and  *)
(* the calls it made into the engine.                                      *)

\* recover_pubkey handing over v mod 2 instead of (v + 1) mod 2
recover_pubkey_same_bit(signature, digest) ==
    LET normalized_v == signature.v % 2
    IN  [ret |-> eth_recover(normalized_v, signature.r, signature.s, digest),
         calls |-> <<[fn |-> "recover_public_key_from_msg_hash",
                      v |-> normalized_v, r |-> signature.r,
                      s |-> signature.s, digest |-> digest]>>]

recover_pubkey(signature, digest) ==
    LET normalized_v == (signature.v + 1) % 2
        normalized_sig == Sig(normalized_v, signature.r, signature.s)
    IN  [ret |-> eth_recover(normalized_sig.v, normalized_sig.r,
                             normalized_sig.s, digest),
         calls |-> <<[fn |-> "recover_public_key_from_msg_hash",
                      v |-> normalized_sig.v, r |-> normalized_sig.r,
                      s |-> normalized_sig.s, digest |-> digest]>>]

recover_address(signature, digest) ==
    LET pub == recover_pubkey(signature, digest)
    IN  [ret |-> IF IsErr(pub.ret) THEN pub.ret ELSE pub_to_addr(pub.ret.b),
         calls |-> pub.calls]

---------------------------------------------------------------------------
(* DER, crypto.py:96-116 *)

\* der_minimal_int with strict DER's 0x00 before a set top bit
der_minimal_int_strict(number) ==
    IF number < 0 THEN Err("ValueError")
    ELSE Bytes(to_bytes(number, (bit_length(number) + 8) \div 8))

der_minimal_int(number) ==
    IF number < 0 THEN Err("ValueError")
    ELSE Bytes(to_bytes(number, (bit_length(number) + 7) \div 8))

sig_to_der(signature) ==
    LET r == der_minimal_int(signature.r)
        s == der_minimal_int(signature.s)
    IN  IF IsErr(r) THEN r
        ELSE IF IsErr(s) THEN s
        ELSE LET enc_r == <<2, Len(r.b)>> \o r.b
                 enc_s == <<2, Len(s.b)>> \o s.b
             IN  Bytes(<<48, Len(enc_r) + Len(enc_s)>> \o enc_r \o enc_s)

---------------------------------------------------------------------------
(* Signing, crypto.py:119-142 *)

sign_hash(digest, privkey, k) ==
    [ret |-> eth_sign_msg_hash(digest, privkey, k),
     calls |-> <<[fn |-> "sign_msg_hash", digest |-> digest, privkey |-> privkey]>>]

sign(message, privkey, algo, k) == sign_hash(apply_hash(algo, message), privkey, k)

\* b'\x19Ethereum Signed Message:\n'
EthPrefix ==
    <<25, 69, 116, 104, 101, 114, 101, 117, 109, 32, 83, 105, 103, 110, 101, 100,
      32, 77, 101, 115, 115, 97, 103, 101, 58, 10>>

sign_message(message, privkey, algo, k) ==
    LET prefixed == EthPrefix \o message
    IN  sign(prefixed, privkey, "keccak256", k)

---------------------------------------------------------------------------
(* The client *)

\* x || y
PointBytes(pt) == to_bytes(pt[1], COORD_LEN) \o to_bytes(pt[2], COORD_LEN)

\* the prefix bytes enumerated in compressed buffers
PrefixBytes == {0, 1, 2, 3, 4, 5, 255}

\* a private key as bytes
PrivBytes(d) == to_bytes(d, COORD_LEN)

KeyInputs ==
    {[kind |-> "pubkey", b |-> PointBytes(pt)] : pt \in CurvePoints}
    \cup {[kind |-> "pubkey", b |-> <<4>> \o PointBytes(pt)] : pt \in CurvePoints}
    \cup {[kind |-> "compressed", b |-> <<pre>> \o to_bytes(x, COORD_LEN)] :
            pre \in PrefixBytes, x \in 0 .. MaxX}
    \cup {[kind |-> "privkey", b |-> PrivBytes(d)] : d \in 1 .. MaxPriv}

\* the bytes messages are made of
MsgBytes == {0, 104}

RECURSIVE SeqsUpTo(_, _)
SeqsUpTo(S, n) ==
    IF n = 0 THEN {<<>>}
    ELSE LET shorter == SeqsUpTo(S, n - 1)
         IN  shorter \cup {Append(q, c) : q \in shorter, c \in S}

Messages == SeqsUpTo(MsgBytes, MaxMsgLen)

\* the names of the hash functions a caller passes as algo
HashFns == {"keccak256", "other"}

MsgInputs ==
    {[kind |-> "msg", m |-> m, priv |-> PrivBytes(d), algo |-> h] :
        m \in Messages, d \in 1 .. MaxPriv, h \in HashFns}

\* the integers enumerated as r and s of a signature given from outside
SigInts == (-1 .. MaxSmall) \cup {127, 128, 255, 256} \cup {N - 1, N}

\* the recovery identifiers enumerated
VInputs == {0, 1, 27, 28}

SigInputs ==
    {[kind |-> "sig", v |-> v, r |-> r, s |-> s, digest |-> keccak256(m)] :
        v \in VInputs, r \in SigInts, s \in SigInts, m \in {<<>>, <<104>>}}

\* The client uncompresses buffers whose integer after the prefix byte is below
\* 2^(8*COORD_LEN - 1): x * x in pow_mod then stays within TLC's integers.
InRange(b) ==
    /\ Len(b) <= COORD_LEN + 2
    /\ from_bytes(DropFirst(b, 1)) < Pow256(COORD_LEN) \div 2

\* The client derives public keys from scalars in 1..N-1 (a valid private key)
\* or from buffers of another length, which the engine rejects.
ValidScalar(b) == Len(b) = COORD_LEN => from_bytes(b) \in 1 .. N - 1

\* The digests the client recovers against: the one that came with a signature
\* given from outside; for a message, algo(m) and the signed-message digest of m.
DigestArgs ==
    IF input.kind = "sig" THEN {input.digest}
    ELSE IF input.kind = "msg"
    THEN {apply_hash(input.algo, input.m), keccak256(EthPrefix \o input.m)}
    ELSE {}

PmIdle == [pc |-> "idle", number |-> 0, x |-> 0, y |-> 0, z |-> 1, x0 |-> 0, y0 |-> 0]

Init ==
    /\ \/ input \in KeyInputs /\ val = Bytes(input.b)
       \/ input \in SigInputs /\ val = Sig(input.v, input.r, input.s)
       \/ input \in MsgInputs /\ val = NoValue
    /\ hist = <<>>
    /\ arg = [fn |-> "none"]
    /\ calls = <<>>
    /\ pm = PmIdle

call_uncompress_pubkey ==
    /\ Len(hist) < MaxCalls
    /\ IsBytes(val)
    /\ InRange(val.b)
    /\ arg' = [fn |-> "uncompress_pubkey", pubkey |-> val.b]
    /\ val' = uncompress_pubkey(val.b)
    /\ hist' = Append(hist, "uncompress_pubkey")
    /\ calls' = <<>>
    /\ UNCHANGED <<input, pm>>

call_compress_pubkey ==
    /\ Len(hist) < MaxCalls
    /\ IsBytes(val)
    /\ arg' = [fn |-> "compress_pubkey", pubkey |-> val.b]
    /\ val' = compress_pubkey(val.b)
    /\ hist' = Append(hist, "compress_pubkey")
    /\ calls' = <<>>
    /\ UNCHANGED <<input, pm>>

call_priv_to_pub ==
    /\ Len(hist) < MaxCalls
    /\ IsBytes(val)
    /\ ValidScalar(val.b)
    /\ arg' = [fn |-> "priv_to_pub", privkey |-> val.b]
    /\ val' = priv_to_pub(val.b)
    /\ hist' = Append(hist, "priv_to_pub")
    /\ calls' = <<>>
    /\ UNCHANGED <<input, pm>>

call_pub_to_addr ==
    /\ Len(hist) < MaxCalls
    /\ IsBytes(val)
    /\ arg' = [fn |-> "pub_to_addr", pubkey |-> val.b]
    /\ val' = pub_to_addr(val.b)
    /\ hist' = Append(hist, "pub_to_addr")
    /\ calls' = <<>>
    /\ UNCHANGED <<input, pm>>

call_priv_to_addr ==
    /\ Len(hist) < MaxCalls
    /\ IsBytes(val)
    /\ ValidScalar(val.b)
    /\ arg' = [fn |-> "priv_to_addr", privkey |-> val.b]
    /\ val' = priv_to_addr(val.b)
    /\ hist' = Append(hist, "priv_to_addr")
    /\ calls' = <<>>
    /\ UNCHANGED <<input, pm>>

call_recover_pubkey ==
    /\ Len(hist) < MaxCalls
    /\ IsSig(val)
    /\ \E digest \in DigestArgs :
          LET out == recover_pubkey(val, digest)
          IN  /\ arg' = [fn |-> "recover_pubkey", signature |-> val,
                         digest |-> digest]
              /\ val' = out.ret
              /\ calls' = out.calls
    /\ hist' = Append(hist, "recover_pubkey")
    /\ UNCHANGED <<input, pm>>

call_recover_address ==
    /\ Len(hist) < MaxCalls
    /\ IsSig(val)
    /\ \E digest \in DigestArgs :
          LET out == recover_address(val, digest)
          IN  /\ arg' = [fn |-> "recover_address", signature |-> val,
                         digest |-> digest]
              /\ val' = out.ret
              /\ calls' = out.calls
    /\ hist' = Append(hist, "recover_address")
    /\ UNCHANGED <<input, pm>>

call_sig_to_der ==
    /\ Len(hist) < MaxCalls
    /\ IsSig(val)
    /\ arg' = [fn |-> "sig_to_der", signature |-> val]
    /\ val' = sig_to_der(val)
    /\ hist' = Append(hist, "sig_to_der")
    /\ calls' = <<>>
    /\ UNCHANGED <<input, pm>>

\* the client signs the keccak256 digest of its message
call_sign_hash ==
    /\ hist = <<>>
    /\ input.kind = "msg"
    /\ \E k \in 1 .. MaxNonce :
          LET out == sign_hash(keccak256(input.m), input.priv, k)
          IN  /\ arg' = [fn |-> "sign_hash", digest |-> keccak256(input.m),
                         privkey |-> input.priv]
              /\ val' = out.ret
              /\ calls' = out.calls
    /\ hist' = Append(hist, "sign_hash")
    /\ UNCHANGED <<input, pm>>

call_sign ==
    /\ hist = <<>>
    /\ input.kind = "msg"
    /\ \E k \in 1 .. MaxNonce :
          LET out == sign(input.m, input.priv, input.algo, k)
          IN  /\ arg' = [fn |-> "sign", message |-> input.m,
                         privkey |-> input.priv, algo |-> input.algo]
              /\ val' = out.ret
              /\ calls' = out.calls
    /\ hist' = Append(hist, "sign")
    /\ UNCHANGED <<input, pm>>

call_sign_message ==
    /\ hist = <<>>
    /\ input.kind = "msg"
    /\ \E k \in 1 .. MaxNonce :
          LET out == sign_message(input.m, input.priv, input.algo, k)
          IN  /\ arg' = [fn |-> "sign_message", message |-> input.m,
                         privkey |-> input.priv, algo |-> input.algo]
              /\ val' = out.ret
              /\ calls' = out.calls
    /\ hist' = Append(hist, "sign_message")
    /\ UNCHANGED <<input, pm>>

Next ==
    \/ call_uncompress_pubkey
    \/ call_compress_pubkey
    \/ call_priv_to_pub
    \/ call_pub_to_addr
    \/ call_priv_to_addr
    \/ call_recover_pubkey
    \/ call_recover_address
    \/ call_sig_to_der
    \/ call_sign_hash
    \/ call_sign
    \/ call_sign_message

Spec == Init /\ [][Next]_vars

---------------------------------------------------------------------------
(* pow_mod as a loop: one step per pass, its own specification *)

PowInit ==
    /\ input = [kind |-> "pow_mod"]
    /\ hist = <<>>
    /\ arg = [fn |-> "none"]
    /\ val = NoValue
    /\ calls = <<>>
    /\ \E x \in 0 .. MaxBase, y \in 0 .. MaxExp, z \in 1 .. MaxMod :
          pm = [pc |-> "loop", number |-> 1, x |-> x, y |-> y, z |-> z,
                x0 |-> x, y0 |-> y]

\* lines 33-37: the test `while y:` succeeds and the body runs
pow_mod_iterate ==
    /\ pm.pc = "loop"
    /\ pm.y # 0
    /\ pm' = pow_mod_body(pm)
    /\ UNCHANGED <<input, hist, arg, val, calls>>

\* lines 33, 38: the test fails and number is returned
pow_mod_return ==
    /\ pm.pc = "loop"
    /\ pm.y = 0
    /\ pm' = [pm EXCEPT !.pc = "done"]
    /\ val' = [tag |-> "int", n |-> pm.number]
    /\ hist' = Append(hist, "pow_mod")
    /\ UNCHANGED <<input, arg, calls>>

PowNext == pow_mod_iterate \/ pow_mod_return

\* the interpreter runs a started call to its end
PowSpec == PowInit /\ [][PowNext]_vars /\ WF_vars(PowNext)

---------------------------------------------------------------------------
(* Claims *)

\* the last function called
LastCall == IF hist = <<>> THEN "none" ELSE hist[Len(hist)]

\* C1: for all messages m and valid private keys priv,
\* recover_address(sign(m, priv), keccak256(m)) equals priv_to_addr(priv).
C1_SignThenRecover ==
    (/\ input.kind = "msg"
     /\ input.algo = "keccak256"
     /\ hist = <<"sign", "recover_address">>
     /\ arg.digest = keccak256(input.m))
    => val = priv_to_addr(input.priv)

\* C2: for all messages m and valid private keys priv,
\* recover_address(sign_message(m, priv), d) equals priv_to_addr(priv), where d is
\* keccak256 of the literal prefix followed by the raw bytes of m.
C2_SignMessageThenRecover ==
    (/\ input.kind = "msg"
     /\ input.algo = "keccak256"
     /\ hist = <<"sign_message", "recover_address">>
     /\ arg.digest = keccak256(EthPrefix \o input.m))
    => val = priv_to_addr(input.priv)

\* the x-coordinates of the curve's points
CurveXs == {pt[1] : pt \in CurvePoints}

\* a compressed key: prefix 0x02 or 0x03, then the x of a curve point
ValidCompressed(b) ==
    /\ Len(b) = COORD_LEN + 1
    /\ b[1] \in {2, 3}
    /\ from_bytes(DropFirst(b, 1)) \in CurveXs

\* C3: uncompress_pubkey applied to a 33-byte buffer whose first byte is neither
\* 0x02 nor 0x03 fails with an error and returns no key.
C3_BadPrefixRejected ==
    (/\ hist = <<"uncompress_pubkey">>
     /\ input.kind = "compressed"
     /\ Len(input.b) = COORD_LEN + 1
     /\ input.b[1] \notin {2, 3})
    => IsErr(val)

\* C4: for every valid compressed key c, uncompress_pubkey(c) keeps the x bytes of c
\* and returns a y whose parity is the one the prefix names, and
\* compress_pubkey(uncompress_pubkey(c)) is c byte for byte.
C4_CompressAfterUncompress ==
    (input.kind = "compressed" /\ ValidCompressed(input.b)) =>
        /\ hist = <<"uncompress_pubkey">> =>
              /\ IsBytes(val)
              /\ Len(val.b) = 2 * COORD_LEN
              /\ TakeFirst(val.b, COORD_LEN) = DropFirst(input.b, 1)
              /\ val.b[Len(val.b)] % 2 = input.b[1] - 2
        /\ hist = <<"uncompress_pubkey", "compress_pubkey">> =>
              val = Bytes(input.b)

C4_Witness ==
    /\ input.kind = "compressed"
    /\ ValidCompressed(input.b)
    /\ input.b[1] = 3
    /\ hist = <<"uncompress_pubkey", "compress_pubkey">>
    /\ val = Bytes(input.b)

\* C5: for every valid uncompressed public key, given as 0x04 || x || y or as
\* x || y with (x, y) on the curve, uncompress_pubkey(compress_pubkey(pub)) is
\* exactly the bytes x || y of pub.
C5_UncompressAfterCompress ==
    (input.kind = "pubkey" /\ hist = <<"compress_pubkey", "uncompress_pubkey">>)
    => val = Bytes(TakeLast(input.b, 2 * COORD_LEN))

C5_Witness ==
    /\ input.kind = "pubkey"
    /\ Len(input.b) = UNCOMPRESSED_LEN
    /\ input.b[Len(input.b)] % 2 = 1
    /\ hist = <<"compress_pubkey", "uncompress_pubkey">>
    /\ val = Bytes(DropFirst(input.b, 1))

\* x^y mod z by repeated multiplication
RECURSIVE PowerMod(_, _, _)
PowerMod(x, y, z) == IF y = 0 THEN 1 % z ELSE (x * PowerMod(x, y - 1, z)) % z

PowMod_Result ==
    (pm.pc = "done" /\ pm.z > 1) =>
        /\ val = [tag |-> "int", n |-> PowerMod(pm.x0, pm.y0, pm.z)]
        /\ 0 <= val.n /\ val.n < pm.z
        /\ pm.y0 = 0 => val.n = 1

\* C6: for all x >= 0, y >= 0 and every modulus p > 1, pow_mod(x, y, p) terminates
\* and returns x^y mod p; pow_mod(x, 0, p) = 1 and 0 <= pow_mod(x, y, p) < p.
C6_PowMod == [](PowMod_Result) /\ <>(pm.pc = "done")

C6_Witness ==
    /\ pm.pc = "done"
    /\ pm.z > 1 /\ pm.x0 > pm.z /\ pm.y0 > 4
    /\ val.n = PowerMod(pm.x0, pm.y0, pm.z)
    /\ val.n > 1

\* the integer whose big-endian bytes, without a leading zero byte, are b
MinimalBytesOf(b, n) == Len(b) >= 1 /\ b[1] # 0 /\ from_bytes(b) = n

\* C7: for every signature (v, r, s) with 0 < r < n and 0 < s < n, sig_to_der
\* returns 0x30 L 0x02 len(r) r 0x02 len(s) s with r and s big-endian in their
\* minimal number of bytes, L the number of bytes that follow it, and the output
\* is the same for every v.
C7_DerEncoding ==
    (/\ LastCall = "sig_to_der"
     /\ 0 < arg.signature.r /\ arg.signature.r < N
     /\ 0 < arg.signature.s /\ arg.signature.s < N)
    => /\ IsBytes(val)
       /\ \E lr \in 1 .. COORD_LEN, ls \in 1 .. COORD_LEN :
             /\ Len(val.b) = 6 + lr + ls
             /\ val.b[1] = 48
             /\ val.b[2] = 4 + lr + ls
             /\ val.b[2] = Len(val.b) - 2
             /\ val.b[3] = 2
             /\ val.b[4] = lr
             /\ MinimalBytesOf(SubSeq(val.b, 5, 4 + lr), arg.signature.r)
             /\ val.b[5 + lr] = 2
             /\ val.b[6 + lr] = ls
             /\ MinimalBytesOf(SubSeq(val.b, 7 + lr, 6 + lr + ls), arg.signature.s)
       /\ \A v \in VInputs :
             sig_to_der(Sig(v, arg.signature.r, arg.signature.s)) = val

C7_Witness ==
    /\ hist = <<"sig_to_der">>
    /\ arg.signature = Sig(27, 128, 256)
    /\ val = Bytes(<<48, 7, 2, 1, 128, 2, 2, 1, 0>>)

\* C8: pub_to_addr returns the same address for 0x04 || x || y and for x || y:
\* '0x' and the lowercase hex of the last 20 bytes of keccak256(x || y).
C8_AddressOfBothForms ==
    (input.kind = "pubkey" /\ hist = <<"pub_to_addr">>)
    => val = Str(<<"0", "x">>
                 \o hex(TakeLast(keccak256(TakeLast(input.b, 2 * COORD_LEN)),
                                 ADDR_LEN)))

\* C9: recover_pubkey(sig, digest) calls the engine's recovery exactly once, with
\* the recovery id 0 when sig.v is odd and 1 when it is even (27 gives 0, 28 gives
\* 1), with r, s and the digest unchanged, and returns what the engine returns,
\* its failure included.
C9_RecoverPubkeyCall ==
    LastCall = "recover_pubkey" =>
        /\ Len(calls) = 1
        /\ calls[1].fn = "recover_public_key_from_msg_hash"
        /\ calls[1].v \in {0, 1}
        /\ calls[1].v = (IF arg.signature.v % 2 = 1 THEN 0 ELSE 1)
        /\ arg.signature.v = 27 => calls[1].v = 0
        /\ arg.signature.v = 28 => calls[1].v = 1
        /\ calls[1].r = arg.signature.r
        /\ calls[1].s = arg.signature.s
        /\ calls[1].digest = arg.digest
        /\ val = eth_recover(calls[1].v, calls[1].r, calls[1].s, calls[1].digest)

C9_Witness ==
    /\ hist = <<"recover_pubkey">>
    /\ arg.signature.v = 27
    /\ calls[1].v = 0
    /\ val = Err("BadSignature")

\* C10: sign_message(message, priv, hash_fn) signs the digest that the
\* caller-supplied hash_fn gives for the prefixed message.
C10_SignMessageUsesAlgo ==
    hist = <<"sign_message">> =>
        /\ Len(calls) = 1
        /\ calls[1].fn = "sign_msg_hash"
        /\ calls[1].digest = apply_hash(input.algo, EthPrefix \o input.m)

=============================================================================
